---- MODULE Spec2Model ----
(***************************************************************************)
(* ShardManager (src/consistent_hashing/manager/shard_manager.py): a       *)
(* consistent-hashing ring over CSV files, one file per node.              *)
(*                                                                         *)
(* State: the two ring maps of the ShardManager object and the CSV files   *)
(* of the working directory.  A file is kept as the text it holds (its     *)
(* rows of three text cells below the header); pandas' read_csv infers a   *)
(* type per column when it reads the text back, and to_csv formats the     *)
(* typed values to text again, so a value that went through a file is not  *)
(* necessarily the value that was written.                                 *)
(*                                                                         *)
(* Every public method is one action; an exception leaves the state as the *)
(* statements executed before the raise made it.                           *)
(***************************************************************************)
EXTENDS Integers, Sequences, FiniteSets, TLC

\* self.max_limit
max_limit == 10000

schema == <<"id", "data", "created_at">>

\* Bounds of the exploration.
MaxRows == 2
MaxNodes == 3

\* Bounds of the lists given to kthElement: their length and their values
\* (0..MaxVal).
MaxLen == 3
MaxVal == 2

\* Node names offered to add_node / remove_node.  "Node7044" hashes to the
\* position of "NodeA.csv", and "NodeA.csv" names the file of "NodeA".
NodeNames == {"NodeA", "NodeB", "Node7044", "NodeA.csv"}

\* Record ids offered to insert_data / get_data / delete_data.  "key3139"
\* hashes to the position of "NodeA"; "7" is text that read_csv parses as
\* an integer.
Ids == {"key3139", "k4", "7"}

Datas == {"v"}

CreatedAts == {"2025-01-01"}

\* The lists a caller passes to insert_data: three fields, or too few, or
\* too many.
InsertInputs ==
    { <<i, d, c>> : i \in Ids, d \in Datas, c \in CreatedAts }
    \cup { <<i, d>> : i \in Ids, d \in Datas }
    \cup { <<i, d, c, "extra">> : i \in Ids, d \in Datas, c \in CreatedAts }

--------------------------------------------------------------------------
(* Hashing *)

\* int(hashlib.sha256(data.encode("utf-8")).hexdigest(), 16) modulo 10^8:
\* the low eight decimal digits of the digest, tabulated for the strings
\* of the model (the digest itself has 78 digits).
Sha256Low(data) ==
    CASE data = "NodeA"     -> 39976487
      [] data = "NodeB"     -> 49490346
      [] data = "Node7044"  -> 93151137
      [] data = "NodeA.csv" -> 81821137
      [] data = "key3139"   -> 97276487
      [] data = "k4"        -> 67698045
      [] data = "7"         -> 7514449

_hash(data) == Sha256Low(data) % max_limit

endswith(s, suffix) ==
    /\ Len(s) >= Len(suffix)
    /\ SubSeq(s, Len(s) - Len(suffix) + 1, Len(s)) = suffix

_get_node_config(node_name) ==
    IF endswith(node_name, ".csv") THEN node_name ELSE node_name \o ".csv"

--------------------------------------------------------------------------
(* CSV text and typed values *)

\* A value in a DataFrame: a Python str, an int (kept by its decimal text)
\* or NaN.
Str(s) == [t |-> "str", v |-> s]
Int64(s) == [t |-> "int", v |-> s]
NaN == [t |-> "nan", v |-> ""]

\* Text that read_csv parses as an integer, and text it takes as missing.
\* (Over the ids, data and dates above no column mixes the two, so no
\* column is read as float.)
IntTexts == {"7"}
NaTexts == {""}

\* read_csv's column inference: a column whose every cell is integer text
\* is read as int64; otherwise its cells stay strings; a missing cell is NaN.
ColumnIsInt(rows, j) ==
    /\ rows # <<>>
    /\ \A i \in 1..Len(rows) : rows[i][j] \in IntTexts

ParseCell(rows, j, s) ==
    IF s \in NaTexts THEN NaN
    ELSE IF ColumnIsInt(rows, j) THEN Int64(s)
    ELSE Str(s)

\* pd.read_csv of a file's text.
ParseCsv(rows) ==
    [i \in 1..Len(rows) |->
        [j \in 1..Len(schema) |-> ParseCell(rows, j, rows[i][j])]]

\* to_csv's text for one value.
FormatCell(c) == IF c.t = "nan" THEN "" ELSE c.v

\* df.to_csv(file_path, index=False): the rows below the header.
FormatCsv(df) ==
    [i \in 1..Len(df) |-> [j \in 1..Len(schema) |-> FormatCell(df[i][j])]]

\* Elementwise df['id'] == id: values of different types are unequal, and
\* NaN equals nothing.
CellEq(a, b) == a.t = b.t /\ a.v = b.v /\ a.t # "nan"

--------------------------------------------------------------------------
(* Results of calls on a world w = [s2i, i2s, files, io, log]: the state a
   call has made so far, with the set io of files it has opened and the log
   of the statements that changed the ring or a file, each with the state
   it left: the states the call passes through, any of which is the state
   left behind if the process stops there. *)

Ok(w, v) == [w |-> w, err |-> "", val |-> v]
Raise(w, e) == [w |-> w, err |-> e, val |-> <<>>]
Touch(w, path) == [w EXCEPT !.io = @ \cup {path}]

\* w after a statement of the given kind on the given node or file.
Logged(w, kind, on) ==
    [w EXCEPT !.log = Append(@, [kind |-> kind, on |-> on, s2i |-> w.s2i,
                                 i2s |-> w.i2s, files |-> w.files])]

--------------------------------------------------------------------------
(* The ring *)

\* sorted(self.shards_to_idx.values()): every node's position, ascending,
\* one entry per node name.
RECURSIVE sorted_values(_)
sorted_values(s2i) ==
    IF DOMAIN s2i = {} THEN <<>>
    ELSE LET n == CHOOSE n \in DOMAIN s2i :
                    \A m \in DOMAIN s2i : s2i[n] <= s2i[m]
         IN <<s2i[n]>> \o sorted_values([m \in DOMAIN s2i \ {n} |-> s2i[m]])

\* bisect.bisect_right: the index after the last entry <= x.
bisect_right(a, x) == Cardinality({i \in 1..Len(a) : a[i] <= x})

\* bisect.bisect_left: the (0-based) index of the first entry >= x.
bisect_left(a, x) == Cardinality({i \in 1..Len(a) : a[i] < x})

\* The same without the empty-ring check: indexing the empty list raises.
find_hash_unguarded(w, hash) ==
    LET all_indices == sorted_values(w.s2i)
        found == bisect_left(all_indices, hash)
        nearest_node_idx == IF found = Len(all_indices) THEN 0 ELSE found
    IN IF nearest_node_idx + 1 \notin DOMAIN all_indices
       THEN Raise(w, "IndexError")
       ELSE LET nearest_node_hash == all_indices[nearest_node_idx + 1]
            IN IF nearest_node_hash \notin DOMAIN w.i2s
               THEN Raise(w, "KeyError")
               ELSE Ok(w, w.i2s[nearest_node_hash])

_find_closest_next_node_for_hash(w, hash) ==
    IF DOMAIN w.s2i = {} THEN Raise(w, "EmptyRing")
    ELSE LET all_indices == sorted_values(w.s2i)
             found == bisect_left(all_indices, hash)
             nearest_node_idx == IF found = Len(all_indices) THEN 0 ELSE found
             nearest_node_hash == all_indices[nearest_node_idx + 1]
         IN IF nearest_node_hash \notin DOMAIN w.i2s
            THEN Raise(w, "KeyError")
            ELSE Ok(w, w.i2s[nearest_node_hash])

\* query_key is a value: one read back from a file may be no str, and
\* data.encode then raises.
_find_closest_next_node_for_key(w, query_key) ==
    IF query_key.t # "str" THEN Raise(w, "AttributeError")
    ELSE _find_closest_next_node_for_hash(w, _hash(query_key.v))

--------------------------------------------------------------------------
(* The node files *)

_create_node(w, node_name) ==
    LET file_path == _get_node_config(node_name)
    IN Logged([Touch(w, file_path) EXCEPT
                  !.files = (file_path :> <<>>) @@ w.files],
              "create", file_path)

_delete_node(w, node_name) ==
    LET file_path == _get_node_config(node_name)
    IN Logged([Touch(w, file_path) EXCEPT
                  !.files = [p \in DOMAIN w.files \ {file_path} |-> w.files[p]]],
              "unlink", file_path)

\* pd.read_csv(file_path)
read_csv(w, file_path) ==
    IF file_path \notin DOMAIN w.files
    THEN Raise(Touch(w, file_path), "FileNotFoundError")
    ELSE Ok(Touch(w, file_path), ParseCsv(w.files[file_path]))

\* df.to_csv(file_path, index=False)
to_csv(w, df, file_path) ==
    [Touch(w, file_path) EXCEPT
       !.files = (file_path :> FormatCsv(df)) @@ w.files]

_read_all_data(w, node_name) ==
    LET r == read_csv(w, _get_node_config(node_name))
    IN IF r.err = "FileNotFoundError" THEN Ok(r.w, <<>>) ELSE r

_get_by_id_from_node(w, id, node_name) ==
    LET r == read_csv(w, _get_node_config(node_name))
    IN IF r.err # "" THEN r
       ELSE Ok(r.w, SelectSeq(r.val, LAMBDA row : CellEq(row[1], id)))

_insert_data_to_node(w, data, node_name) ==
    LET file_path == _get_node_config(node_name)
        r == read_csv(w, file_path)
    IN IF r.err # "" THEN r
       ELSE Ok(Logged(to_csv(r.w, Append(r.val, data), file_path),
                      "insert", file_path), <<>>)

_delete_by_id_from_node(w, id, node_name) ==
    LET file_path == _get_node_config(node_name)
        r == read_csv(w, file_path)
    IN IF r.err # "" THEN r
       ELSE Ok(Logged(to_csv(r.w,
                             SelectSeq(r.val, LAMBDA row : ~CellEq(row[1], id)),
                             file_path),
                      "delete", file_path), <<>>)

--------------------------------------------------------------------------
(* Record operations *)

get_data(w, id) ==
    LET r == _find_closest_next_node_for_key(w, id)
    IN IF r.err # "" THEN r ELSE _get_by_id_from_node(r.w, id, r.val)

\* The length check written as "too short" only.
length_mismatch_short(data) == Len(data) < Len(schema)

\* len(data) != len(schema)
length_mismatch(data) == Len(data) # Len(schema)

\* The record written to the node at the lowest position, whatever its id.
insert_data_lowest_node(w, data) ==
    IF length_mismatch(data) THEN Raise(w, "SchemaMismatch")
    ELSE LET r == _find_closest_next_node_for_hash(w, 0)
         IN IF r.err # "" THEN r ELSE _insert_data_to_node(r.w, data, r.val)

insert_data(w, data) ==
    IF length_mismatch(data) THEN Raise(w, "SchemaMismatch")
    ELSE LET id == data[1]
             r == _find_closest_next_node_for_key(w, id)
         IN IF r.err # "" THEN r ELSE _insert_data_to_node(r.w, data, r.val)

delete_data(w, id) ==
    LET r == _find_closest_next_node_for_key(w, id)
    IN IF r.err # "" THEN r ELSE _delete_by_id_from_node(r.w, id, r.val)

--------------------------------------------------------------------------
(* Rebalancing *)

\* for item in to_delete: self._delete_by_id_from_node(item, node)
RECURSIVE delete_each(_, _, _)
delete_each(w, to_delete, node) ==
    IF to_delete = <<>> THEN Ok(w, <<>>)
    ELSE LET r == _delete_by_id_from_node(w, Head(to_delete), node)
         IN IF r.err # "" THEN r
            ELSE delete_each(r.w, Tail(to_delete), node)

\* The scan of _rebalance_data_on_node_addition: re-resolve every item read
\* from next_node and insert the ones another node owns now.  Returns
\* to_delete.
RECURSIVE addition_scan(_, _, _, _)
addition_scan(w, items, next_node, to_delete) ==
    IF items = <<>> THEN Ok(w, to_delete)
    ELSE LET item == Head(items)
             r == _find_closest_next_node_for_key(w, item[1])
         IN IF r.err # "" THEN r
            ELSE IF r.val = next_node
            THEN addition_scan(r.w, Tail(items), next_node, to_delete)
            ELSE LET ins == insert_data(r.w, item)
                 IN IF ins.err # "" THEN ins
                    ELSE addition_scan(ins.w, Tail(items), next_node,
                                       Append(to_delete, item[1]))

_rebalance_data_on_node_addition(w, node_name) ==
    LET new_node_hash == _hash(node_name)
        nxt == _find_closest_next_node_for_hash(
                   w, (new_node_hash + 1) % max_limit)
    IN IF nxt.err # "" THEN nxt
       ELSE LET next_node == nxt.val
                all_data == _read_all_data(nxt.w, next_node)
                scan == addition_scan(all_data.w, all_data.val, next_node, <<>>)
            IN IF scan.err # "" THEN scan
               ELSE delete_each(scan.w, scan.val, next_node)

\* The scan of _rebalance_data_on_node_removal: insert every item of the
\* departing node into next_node.  Returns to_delete.
RECURSIVE removal_scan(_, _, _, _)
removal_scan(w, items, next_node, to_delete) ==
    IF items = <<>> THEN Ok(w, to_delete)
    ELSE LET item == Head(items)
             ins == _insert_data_to_node(w, item, next_node)
         IN IF ins.err # "" THEN ins
            ELSE removal_scan(ins.w, Tail(items), next_node,
                              Append(to_delete, item[1]))

\* The guard written as "no node at all".
too_few_nodes_none(number_of_nodes) == number_of_nodes < 1

\* number_of_nodes <= 1
too_few_nodes(number_of_nodes) == number_of_nodes <= 1

_rebalance_data_on_node_removal(w, node_name) ==
    LET number_of_nodes == Cardinality(DOMAIN w.s2i)
    IN IF too_few_nodes(number_of_nodes) THEN Raise(w, "LastNodeRemoval")
       ELSE LET all_data == _read_all_data(w, node_name)
                current_node_hash == _hash(node_name)
                nxt == _find_closest_next_node_for_hash(
                           all_data.w, (current_node_hash + 1) % max_limit)
            IN IF nxt.err # "" THEN nxt
               ELSE LET scan == removal_scan(nxt.w, all_data.val, nxt.val, <<>>)
                    IN IF scan.err # "" THEN scan
                       ELSE delete_each(scan.w, scan.val, node_name)

--------------------------------------------------------------------------
(* Topology operations *)

\* The duplicate check made against the names of the position map.
node_in_position_map(w, node_name) ==
    \E h \in DOMAIN w.i2s : w.i2s[h] = node_name

\* node_name in self.shards_to_idx
node_in_ring(w, node_name) == node_name \in DOMAIN w.s2i

add_node(w, node_name) ==
    IF node_in_ring(w, node_name) THEN Raise(w, "DuplicateNode")
    ELSE LET node_hash == _hash(node_name)
             w0 == Logged([w EXCEPT !.s2i = (node_name :> node_hash) @@ w.s2i],
                          "set_s2i", node_name)
             w1 == Logged([w0 EXCEPT !.i2s = (node_hash :> node_name) @@ w0.i2s],
                          "set_i2s", node_name)
             w2 == _create_node(w1, node_name)
         IN _rebalance_data_on_node_addition(w2, node_name)

\* The membership check left out: the lookup of the position raises.
node_not_in_ring_unchecked(w, node_name) == FALSE

\* node_name not in self.shards_to_idx
node_not_in_ring(w, node_name) == node_name \notin DOMAIN w.s2i

\* The file of the node deleted first, the rebalance and the ring entries
\* after it.
remove_node_unlink_first(w, node_name) ==
    IF node_not_in_ring(w, node_name) THEN Raise(w, "UnknownNode")
    ELSE LET node_hash == w.s2i[node_name]
             reb == _rebalance_data_on_node_removal(_delete_node(w, node_name),
                                                    node_name)
         IN IF reb.err # "" THEN reb
            ELSE LET w1 == Logged(
                              [reb.w EXCEPT
                                 !.s2i = [n \in DOMAIN reb.w.s2i \ {node_name}
                                            |-> reb.w.s2i[n]]],
                              "del_s2i", node_name)
                 IN IF node_hash \notin DOMAIN w1.i2s
                    THEN Raise(w1, "KeyError")
                    ELSE Ok(Logged([w1 EXCEPT
                                      !.i2s = [h \in DOMAIN w1.i2s \ {node_hash}
                                                 |-> w1.i2s[h]]],
                                   "del_i2s", node_name), <<>>)

remove_node(w, node_name) ==
    IF node_not_in_ring(w, node_name) THEN Raise(w, "UnknownNode")
    ELSE IF node_name \notin DOMAIN w.s2i THEN Raise(w, "KeyError")
    ELSE LET node_hash == w.s2i[node_name]
             reb == _rebalance_data_on_node_removal(w, node_name)
         IN IF reb.err # "" THEN reb
            ELSE LET w1 == Logged(
                              [reb.w EXCEPT
                                 !.s2i = [n \in DOMAIN reb.w.s2i \ {node_name}
                                            |-> reb.w.s2i[n]]],
                              "del_s2i", node_name)
                 IN IF node_hash \notin DOMAIN w1.i2s
                    THEN Raise(w1, "KeyError")
                    ELSE Ok(_delete_node(
                               Logged([w1 EXCEPT
                                         !.i2s = [h \in DOMAIN w1.i2s \ {node_hash}
                                                    |-> w1.i2s[h]]],
                                      "del_i2s", node_name),
                               node_name), <<>>)

--------------------------------------------------------------------------
(* main.py: Solution.kthElement *)

\* The values the search compares: list elements, float("-inf") and
\* float("inf").
Elem(v) == [s |-> 0, v |-> v]
NegInf == [s |-> -1, v |-> 0]
PosInf == [s |-> 1, v |-> 0]

\* x <= y and x > y over these values.
Le(x, y) == \/ x.s < y.s
            \/ x.s = y.s /\ (x.s # 0 \/ x.v <= y.v)
Gt(x, y) == ~Le(x, y)

\* max(x, y): the second argument only if it is greater.
max(x, y) == IF Gt(y, x) THEN y ELSE x

\* max and min of two integers.
imax(x, y) == IF x >= y THEN x ELSE y
imin(x, y) == IF x <= y THEN x ELSE y

\* seq[i] of a Python list: zero-based, a negative index counts from the
\* end, IndexError outside.
PyIndexable(seq, i) == -Len(seq) <= i /\ i < Len(seq)
PyIndex(seq, i) == IF i >= 0 THEN seq[i + 1] ELSE seq[Len(seq) + i + 1]

\* midB taken one element further.
midB_of_k_less_one(k, midA) == k - midA - 1

\* midB = k - midA - 2
midB_of(k, midA) == k - midA - 2

\* One pass of the while loop on the search state q (the fields A, B, k,
\* low, high): return, or narrow the interval.
loop_body(q) ==
    LET midA == (q.low + q.high) \div 2
        midB == midB_of(q.k, midA)
        need == (IF midA >= 0 THEN {<<q.A, midA>>} ELSE {})
                \cup (IF midA + 1 < Len(q.A) THEN {<<q.A, midA + 1>>} ELSE {})
                \cup (IF midB >= 0 THEN {<<q.B, midB>>} ELSE {})
                \cup (IF midB + 1 < Len(q.B) THEN {<<q.B, midB + 1>>} ELSE {})
    IN IF \E x \in need : ~PyIndexable(x[1], x[2])
       THEN [q EXCEPT !.pc = "done", !.err = "IndexError"]
       ELSE LET Aleft == IF midA >= 0 THEN Elem(PyIndex(q.A, midA)) ELSE NegInf
                Aright == IF midA + 1 < Len(q.A)
                          THEN Elem(PyIndex(q.A, midA + 1)) ELSE PosInf
                Bleft == IF midB >= 0 THEN Elem(PyIndex(q.B, midB)) ELSE NegInf
                Bright == IF midB + 1 < Len(q.B)
                          THEN Elem(PyIndex(q.B, midB + 1)) ELSE PosInf
            IN IF Le(Aleft, Bright) /\ Le(Bleft, Aright)
               THEN [q EXCEPT !.pc = "done", !.ret = max(Aleft, Bleft)]
               ELSE IF Gt(Aleft, Bright)
               THEN [q EXCEPT !.high = midA - 1]
               ELSE [q EXCEPT !.low = midA + 1]

\* kthElement is not running.
KthIdle == [pc |-> "idle"]

--------------------------------------------------------------------------
(* The state machine *)

VARIABLES
    shards_to_idx,   \* self.shards_to_idx: node name -> position
    idx_to_shards,   \* self.idx_to_shards: position -> node name
    files,           \* the CSV files: path -> rows of text cells
    last,            \* the last call: method, arguments, exception, result, files
                     \* opened, and the log of its statements
    inserted,        \* per id, the records insert_data accepted since its last
                     \* delete_data, followed while no call has raised
    allOk,           \* no call so far has raised
    kth              \* a call of Solution.kthElement: its arguments, its locals
                     \* and where it stands

vars == <<shards_to_idx, idx_to_shards, files, last, inserted, allOk, kth>>

World == [s2i |-> shards_to_idx, i2s |-> idx_to_shards, files |-> files,
          io |-> {}, log |-> <<>>]

RECURSIVE total_rows(_)
total_rows(fs) ==
    IF DOMAIN fs = {} THEN 0
    ELSE LET p == CHOOSE p \in DOMAIN fs : TRUE
         IN Len(fs[p]) + total_rows([q \in DOMAIN fs \ {p} |-> fs[q]])

RECURSIVE sum_len(_, _)
sum_len(f, S) ==
    IF S = {} THEN 0
    ELSE LET x == CHOOSE x \in S : TRUE
         IN Len(f[x]) + sum_len(f, S \ {x})

NoRecords == [i \in Ids |-> <<>>]

\* The records accepted so far, after a call that did not raise.
Accepted(op, arg) ==
    CASE op = "insert_data" -> [inserted EXCEPT ![arg[1]] = Append(@, arg)]
      [] op = "delete_data" -> [inserted EXCEPT ![arg[1]] = <<>>]
      [] OTHER -> inserted

\* No call is pending: the caller has taken the result of the last one.
NoCall == [op |-> "none", arg |-> <<>>, err |-> "", result |-> <<>>, io |-> {},
           log |-> <<>>]

\* What a call leaves behind.  The methods are synchronous: a call starts
\* when the caller has the result of the one before.
Commit(op, arg, r) ==
    /\ last = NoCall
    /\ shards_to_idx' = r.w.s2i
    /\ idx_to_shards' = r.w.i2s
    /\ files' = r.w.files
    /\ last' = [op |-> op, arg |-> arg, err |-> r.err,
                result |-> IF op = "get_data" /\ r.err = "" THEN r.val ELSE <<>>,
                io |-> r.w.io, log |-> r.w.log]
    /\ allOk' = (allOk /\ r.err = "")
    /\ inserted' = IF allOk /\ r.err = "" THEN Accepted(op, arg) ELSE NoRecords
    /\ UNCHANGED kth

Init ==
    /\ shards_to_idx = <<>>
    /\ idx_to_shards = <<>>
    /\ files = <<>>
    /\ last = NoCall
    /\ inserted = [i \in Ids |-> <<>>]
    /\ allOk = TRUE
    /\ kth = KthIdle

\* A faulty migration can leave a record on two nodes, and repeating it
\* grows the files without limit: topology changes are explored while the
\* files hold at most MaxRows rows.
AddNode(node_name) ==
    /\ total_rows(files) <= MaxRows
    /\ \/ node_name \in DOMAIN shards_to_idx
       \/ Cardinality(DOMAIN shards_to_idx) < MaxNodes
    /\ Commit("add_node", <<node_name>>, add_node(World, node_name))

RemoveNode(node_name) ==
    /\ total_rows(files) <= MaxRows
    /\ Commit("remove_node", <<node_name>>, remove_node(World, node_name))

InsertData(data) ==
    /\ \/ Len(data) # Len(schema)
       \/ /\ total_rows(files) < MaxRows
          /\ sum_len(inserted, Ids) < MaxRows
    /\ Commit("insert_data", data,
              insert_data(World, [j \in 1..Len(data) |-> Str(data[j])]))

GetData(id) ==
    /\ id \in Ids
    /\ Commit("get_data", <<id>>, get_data(World, Str(id)))

DeleteData(id) ==
    /\ id \in Ids
    /\ Commit("delete_data", <<id>>, delete_data(World, Str(id)))

\* The caller takes the result (or catches the exception).
Return ==
    /\ last # NoCall
    /\ last' = NoCall
    /\ UNCHANGED <<shards_to_idx, idx_to_shards, files, inserted, allOk, kth>>

Next ==
    \/ \E node_name \in NodeNames : AddNode(node_name)
    \/ \E node_name \in NodeNames : RemoveNode(node_name)
    \/ \E data \in InsertInputs : InsertData(data)
    \/ \E id \in Ids : GetData(id)
    \/ \E id \in Ids : DeleteData(id)
    \/ Return

Spec == Init /\ [][Next]_vars

--------------------------------------------------------------------------
(* The state machine of Solution.kthElement *)

\* The ascending lists of at most MaxLen values of 0..MaxVal.
SortedLists ==
    {l \in UNION {[1..len -> 0..MaxVal] : len \in 0..MaxLen} :
        \A i \in 1..Len(l) : \A j \in 1..Len(l) : i < j => l[i] <= l[j]}

\* kthElement(a, b, k) is called with two ascending lists and
\* 1 <= k <= len(a) + len(b).
InitKth ==
    /\ shards_to_idx = <<>>
    /\ idx_to_shards = <<>>
    /\ files = <<>>
    /\ last = NoCall
    /\ inserted = [i \in Ids |-> <<>>]
    /\ allOk = TRUE
    /\ \E a \in SortedLists : \E b \in SortedLists :
          \E k \in 1..(Len(a) + Len(b)) :
              kth = [pc |-> "start", a |-> a, b |-> b, k |-> k,
                     A |-> a, B |-> b, low |-> 0, high |-> 0,
                     passes |-> 0, ret |-> Elem(-1), err |-> ""]

\* Lines 3-9: the shorter list becomes A; the bounds of the search.
KthStart ==
    /\ kth.pc = "start"
    /\ LET swap == Len(kth.b) < Len(kth.a)
           A == IF swap THEN kth.b ELSE kth.a
           B == IF swap THEN kth.a ELSE kth.b
           n == Len(A)
           m == Len(B)
       IN kth' = [kth EXCEPT !.pc = "loop", !.A = A, !.B = B,
                             !.low = imax(0, kth.k - m) - 1,
                             !.high = imin(kth.k, n) - 1]
    /\ UNCHANGED <<shards_to_idx, idx_to_shards, files, last, inserted, allOk>>

\* Lines 11-27: the loop test, then one pass of the loop, or the return
\* of -1 after the loop.
KthLoop ==
    /\ kth.pc = "loop"
    /\ kth' = IF kth.low <= kth.high
              THEN [loop_body(kth) EXCEPT !.passes = @ + 1]
              ELSE [kth EXCEPT !.pc = "done", !.ret = Elem(-1)]
    /\ UNCHANGED <<shards_to_idx, idx_to_shards, files, last, inserted, allOk>>

NextKth ==
    \/ KthStart
    \/ KthLoop

SpecKth == InitKth /\ [][NextKth]_vars

--------------------------------------------------------------------------
(* Vocabulary of the properties *)

\* The files of the nodes in the ring.
RingFiles == {_get_node_config(n) : n \in DOMAIN shards_to_idx} \cap DOMAIN files

\* The ids stored in the file at path (as the text the file holds).
IdsIn(path) == {files[path][i][1] : i \in 1..Len(files[path])}

\* The ids stored across the files of the nodes in the ring.
StoredIds == UNION {IdsIn(p) : p \in RingFiles}

Count(seq, x) == Cardinality({i \in 1..Len(seq) : seq[i] = x})

SameRecords(a, b) ==
    /\ Len(a) = Len(b)
    /\ \A i \in 1..Len(a) : Count(a, a[i]) = Count(b, a[i])

\* A topology change has just returned without raising.
TopologyChanged == last.op \in {"add_node", "remove_node"} /\ last.err = ""

\* The ring positions.
Positions == 0..(max_limit - 1)

\* The node clockwise after position P: the one at the smallest position
\* strictly greater than P, or at the smallest position of all.
NextClockwise(P) ==
    LET after == {h \in DOMAIN idx_to_shards : h > P}
        from == IF after = {} THEN DOMAIN idx_to_shards ELSE after
    IN idx_to_shards[CHOOSE h \in from : \A g \in from : h <= g]

--------------------------------------------------------------------------
(* Properties *)

\* C1: right after a successful add_node or remove_node every stored record
\* is in the file of the node that _find_closest_next_node_for_key(id)
\* designates under the updated ring.
C1_RecordsOnDesignatedNode ==
    TopologyChanged =>
        \A p \in DOMAIN files : \A id \in IdsIn(p) :
            LET r == _find_closest_next_node_for_key(World, Str(id))
            IN r.err = "" /\ _get_node_config(r.val) = p

\* C2: a successful add_node or remove_node keeps the set of record ids
\* stored across the files of the ring's nodes, and leaves no id on two
\* nodes.
C2_IdsConserved ==
    [][(last'.op \in {"add_node", "remove_node"} /\ last'.err = "")
         => /\ StoredIds' = StoredIds
            /\ \A p \in RingFiles' : \A q \in RingFiles' :
                   p # q => (IdsIn(p) \cap IdsIn(q))' = {}]_vars

\* C3: while every call has succeeded and the ring is not empty, get_data(id)
\* returns exactly the records inserted with id since its last delete_data,
\* each as many times as it was inserted and with its fields as given.
C3_Multimap ==
    (allOk /\ DOMAIN shards_to_idx # {}) =>
        \A id \in Ids :
            LET r == get_data(World, Str(id))
            IN /\ r.err = ""
               /\ SameRecords(r.val,
                      [i \in 1..Len(inserted[id]) |->
                          [j \in 1..Len(schema) |-> Str(inserted[id][i][j])]])

\* C4 as stated: resolving the position P of a node returns the next node
\* clockwise, the one at the smallest position strictly greater than P.
C4_NextNodeOwnsBoundary ==
    \A P \in DOMAIN idx_to_shards :
        LET r == _find_closest_next_node_for_hash(World, P)
        IN r.err = "" /\ r.val = NextClockwise(P)

\* C4 as amended: resolving a position P that idx_to_shards maps returns
\* the node at P itself, so a key whose hash is a node's position is owned
\* by that node.
C4_NodeOwnsItsPosition ==
    /\ \A P \in DOMAIN idx_to_shards :
           _find_closest_next_node_for_hash(World, P)
               = Ok(World, idx_to_shards[P])
    /\ \A id \in Ids :
           _hash(id) \in DOMAIN idx_to_shards =>
               _find_closest_next_node_for_key(World, Str(id))
                   = Ok(World, idx_to_shards[_hash(id)])

\* A record whose id hashes to NodeA's position was inserted into a ring of
\* NodeA and NodeB, and is in NodeA's file.
C4_Witness ==
    /\ {"NodeA", "NodeB"} \subseteq DOMAIN shards_to_idx
    /\ last.op = "insert_data" /\ last.err = ""
    /\ last.arg[1] = "key3139"
    /\ _hash("key3139") = shards_to_idx["NodeA"]
    /\ "NodeA.csv" \in DOMAIN files
    /\ "key3139" \in IdsIn("NodeA.csv")

\* C5: on a non-empty ring reached by successful calls, resolving any
\* position returns a node of the ring without raising, and a position
\* above every node's position wraps to the node with the smallest one.
C5_TotalCoverage ==
    (allOk /\ DOMAIN shards_to_idx # {}) =>
        \A p \in Positions :
            LET r == _find_closest_next_node_for_hash(World, p)
            IN /\ r.err = ""
               /\ r.val \in DOMAIN shards_to_idx
               /\ (\A n \in DOMAIN shards_to_idx : shards_to_idx[n] < p)
                    => \A n \in DOMAIN shards_to_idx :
                           shards_to_idx[r.val] <= shards_to_idx[n]

\* The ring and the files are as they were before the step.
NothingChanged == UNCHANGED <<shards_to_idx, idx_to_shards, files>>

\* C6: on a ring with no nodes, get_data, insert_data (of a three-field
\* record) and delete_data raise "No nodes available in cluster" and open
\* no file.
C6_EmptyRingFails ==
    [][(/\ DOMAIN shards_to_idx = {}
        /\ \/ last'.op \in {"get_data", "delete_data"}
           \/ last'.op = "insert_data" /\ Len(last'.arg) = Len(schema))
         => /\ last'.err = "EmptyRing"
            /\ last'.io = {}
            /\ NothingChanged]_vars

\* insert_data on the empty ring has raised EmptyRing.
C6_Witness ==
    /\ DOMAIN shards_to_idx = {}
    /\ last.op = "insert_data"
    /\ Len(last.arg) = Len(schema)
    /\ last.err = "EmptyRing"

\* C7: add_node of a name that is in the ring raises DuplicateNode and
\* changes neither ring map nor any file.
C7_DuplicateNodeNoChange ==
    [][(last'.op = "add_node" /\ last'.arg[1] \in DOMAIN shards_to_idx)
         => /\ last'.err = "DuplicateNode"
            /\ last'.io = {}
            /\ NothingChanged]_vars

\* add_node of a node that holds a record has raised DuplicateNode.
C7_Witness ==
    /\ last.op = "add_node"
    /\ last.err = "DuplicateNode"
    /\ last.arg[1] \in DOMAIN shards_to_idx
    /\ _get_node_config(last.arg[1]) \in DOMAIN files
    /\ files[_get_node_config(last.arg[1])] # <<>>

\* C8: remove_node of the only node of the ring raises LastNodeRemoval and
\* changes neither the ring nor any file.
C8_LastNodeRemovalNoChange ==
    [][(last'.op = "remove_node" /\ DOMAIN shards_to_idx = {last'.arg[1]})
         => /\ last'.err = "LastNodeRemoval"
            /\ last'.io = {}
            /\ NothingChanged]_vars

\* remove_node of the only node, which holds a record, has raised
\* LastNodeRemoval.
C8_Witness ==
    /\ last.op = "remove_node"
    /\ last.err = "LastNodeRemoval"
    /\ DOMAIN shards_to_idx = {last.arg[1]}
    /\ _get_node_config(last.arg[1]) \in DOMAIN files
    /\ files[_get_node_config(last.arg[1])] # <<>>

\* C9: remove_node of a name that is not in shards_to_idx raises
\* UnknownNode and changes neither the ring nor any file, however many
\* nodes the ring has.
C9_UnknownNodeNoChange ==
    [][(last'.op = "remove_node" /\ last'.arg[1] \notin DOMAIN shards_to_idx)
         => /\ last'.err = "UnknownNode"
            /\ last'.io = {}
            /\ NothingChanged]_vars

\* remove_node of an absent name has raised UnknownNode on a ring of two
\* nodes that holds a record.
C9_Witness ==
    /\ last.op = "remove_node"
    /\ last.err = "UnknownNode"
    /\ last.arg[1] \notin DOMAIN shards_to_idx
    /\ Cardinality(DOMAIN shards_to_idx) = 2
    /\ StoredIds # {}

\* C10: insert_data of a list that has not exactly three fields raises
\* SchemaMismatch before the owner is resolved: no file is opened, nothing
\* changes, and on the empty ring the error is still SchemaMismatch.
C10_SchemaMismatchNoIO ==
    [][(last'.op = "insert_data" /\ Len(last'.arg) # Len(schema))
         => /\ last'.err = "SchemaMismatch"
            /\ last'.io = {}
            /\ NothingChanged]_vars

\* A list of four fields has been refused on a ring that holds a record.
C10_Witness ==
    /\ last.op = "insert_data"
    /\ Len(last.arg) > Len(schema)
    /\ last.err = "SchemaMismatch"
    /\ StoredIds # {}

--------------------------------------------------------------------------
(* Record operations: delete and insert *)

\* The world of the state an action leads to.
WorldAfter == [s2i |-> shards_to_idx', i2s |-> idx_to_shards', files |-> files',
               io |-> {}, log |-> <<>>]

\* The rows of the file at path whose id is not id, in order.
OtherRows(fs, path, id) == SelectSeq(fs[path], LAMBDA row : row[1] # id)

\* The ids stored in any file.
AllIds == UNION {IdsIn(p) : p \in DOMAIN files}

\* C11: on a non-empty ring, after calls that all succeeded, delete_data(id)
\* of an id that no file holds succeeds and leaves every file as it was; a
\* second delete_data(id) leaves the state the first one left; and
\* delete_data(id) removes no row that has another id.
C11_DeleteIdempotent ==
    [][(last'.op = "delete_data" /\ allOk /\ DOMAIN shards_to_idx # {})
         => LET id == last'.arg[1]
                again == delete_data(WorldAfter, Str(id))
            IN /\ id \notin AllIds
                    => /\ last'.err = ""
                       /\ NothingChanged
               /\ again.w.s2i = shards_to_idx'
               /\ again.w.i2s = idx_to_shards'
               /\ again.w.files = files'
               /\ DOMAIN files' = DOMAIN files
               /\ \A p \in DOMAIN files :
                      OtherRows(files', p, id) = OtherRows(files, p, id)]_vars

\* C12: insert_data keeps no id unique: on a non-empty ring, after calls that
\* all succeeded, insert_data of a three-field record is accepted whatever
\* the files hold, and get_data(id) then returns as many rows as insert_data
\* accepted for that id since the last delete_data(id).
C12_NoImplicitUniqueness ==
    [][(/\ last'.op = "insert_data"
        /\ Len(last'.arg) = Len(schema)
        /\ allOk
        /\ DOMAIN shards_to_idx # {})
         => LET id == last'.arg[1]
                r == get_data(WorldAfter, Str(id))
            IN /\ last'.err = ""
               /\ r.err = ""
               /\ Len(r.val) = Len(inserted'[id])]_vars

--------------------------------------------------------------------------
(* Ring structure *)

\* C13: add_node of a name whose hash is the position of a node in the ring
\* is refused and changes neither map; and after any call no two nodes of
\* shards_to_idx have the same position.
C13_PositionsUnique ==
    [][/\ (/\ last'.op = "add_node"
           /\ \E m \in DOMAIN shards_to_idx :
                  shards_to_idx[m] = _hash(last'.arg[1]))
            => /\ last'.err # ""
               /\ UNCHANGED <<shards_to_idx, idx_to_shards>>
       /\ \A n \in DOMAIN shards_to_idx' : \A m \in DOMAIN shards_to_idx' :
              n # m => shards_to_idx'[n] # shards_to_idx'[m]]_vars

\* C14: after every call that completes, following calls that all completed,
\* the files that exist are exactly the files of the nodes in
\* shards_to_idx; after add_node(n) the file of n exists; after
\* remove_node(n), n is not in shards_to_idx and its file does not exist.
C14_ContainerLifecycle ==
    [][(allOk /\ last'.err = "")
         => /\ DOMAIN files' =
                  {_get_node_config(n) : n \in DOMAIN shards_to_idx'}
            /\ last'.op = "add_node"
                  => _get_node_config(last'.arg[1]) \in DOMAIN files'
            /\ last'.op = "remove_node"
                  => /\ last'.arg[1] \notin DOMAIN shards_to_idx'
                     /\ _get_node_config(last'.arg[1]) \notin DOMAIN files']_vars

--------------------------------------------------------------------------
(* Reads of a node whose file does not exist; the same two methods of
   DataStore (data_store.py) *)

\* DataStore.get_all
get_all(w, node_name) ==
    LET r == read_csv(w, _get_node_config(node_name))
    IN IF r.err = "FileNotFoundError" THEN Ok(r.w, <<>>) ELSE r

\* DataStore.get_by_id
get_by_id(w, id, node_name) ==
    LET r == read_csv(w, _get_node_config(node_name))
    IN IF r.err # "" THEN r
       ELSE Ok(r.w, SelectSeq(r.val, LAMBDA row : CellEq(row[1], id)))

\* C15: for a node whose file does not exist, reading all records
\* (_read_all_data, DataStore.get_all) returns no row and raises nothing,
\* and so does the lookup of any id (_get_by_id_from_node,
\* DataStore.get_by_id).
C15_MissingContainerReadsEmpty ==
    \A node_name \in NodeNames :
        _get_node_config(node_name) \notin DOMAIN files
            => /\ _read_all_data(World, node_name).err = ""
               /\ _read_all_data(World, node_name).val = <<>>
               /\ get_all(World, node_name).err = ""
               /\ get_all(World, node_name).val = <<>>
               /\ \A id \in Ids :
                     /\ _get_by_id_from_node(World, Str(id), node_name).err = ""
                     /\ _get_by_id_from_node(World, Str(id), node_name).val = <<>>
                     /\ get_by_id(World, Str(id), node_name).err = ""
                     /\ get_by_id(World, Str(id), node_name).val = <<>>

\* C17: shards_to_idx and idx_to_shards are inverse maps: every node of
\* shards_to_idx is the node idx_to_shards has at its position, and every
\* position of idx_to_shards is the position shards_to_idx has for its node.
C17_MapsMutualInverses ==
    /\ \A n \in DOMAIN shards_to_idx :
          /\ shards_to_idx[n] \in DOMAIN idx_to_shards
          /\ idx_to_shards[shards_to_idx[n]] = n
    /\ \A h \in DOMAIN idx_to_shards :
          /\ idx_to_shards[h] \in DOMAIN shards_to_idx
          /\ shards_to_idx[idx_to_shards[h]] = h

--------------------------------------------------------------------------
(* The statements of a topology change *)

\* The ids held by any file of fs.
IdsOf(fs) == UNION {{fs[p][i][1] : i \in 1..Len(fs[p])} : p \in DOMAIN fs}

\* The ids a "delete" statement, the k-th of the log, has removed from its
\* file (fs is the files before the call).
Removed(fs, log, k) ==
    LET was == IF k = 1 THEN fs ELSE log[k - 1].files
        path == log[k].on
    IN {was[path][i][1] : i \in 1..Len(was[path])}
         \ {log[k].files[path][i][1] : i \in 1..Len(log[k].files[path])}

\* C18: in add_node and in remove_node a record is written to its target
\* file before it is deleted from its source file: whatever a delete
\* statement removes from a file is then held by another file, and after
\* every statement of the call each id that the files of the ring held
\* before the call is still held by some file.
C18_InsertBeforeDelete ==
    [][last'.op \in {"add_node", "remove_node"}
         => \A k \in 1..Len(last'.log) :
               /\ StoredIds \subseteq IdsOf(last'.log[k].files)
               /\ last'.log[k].kind = "delete"
                    => \A id \in Removed(files, last'.log, k) :
                          \E p \in DOMAIN last'.log[k].files \ {last'.log[k].on} :
                              \E i \in 1..Len(last'.log[k].files[p]) :
                                  last'.log[k].files[p][i][1] = id]_vars

\* C19: once shards_to_idx holds a node it holds one after every later
\* call, a successful add_node leaves it holding one, and no call made
\* while it holds a node raises EmptyRing.
C19_RingStaysNonEmpty ==
    [][/\ (last'.op = "add_node" /\ last'.err = "")
            => DOMAIN shards_to_idx' # {}
       /\ DOMAIN shards_to_idx # {}
            => /\ DOMAIN shards_to_idx' # {}
               /\ last'.err # "EmptyRing"]_vars

\* remove_node has succeeded and left a ring of one node.
C19_Witness ==
    /\ last.op = "remove_node"
    /\ last.err = ""
    /\ Cardinality(DOMAIN shards_to_idx) = 1

\* The place of a statement in remove_node: the inserts of the scan, the
\* deletes from the departing node, the two ring entries, the file.
StatementRank(kind) ==
    CASE kind = "insert"  -> 1
      [] kind = "delete"  -> 2
      [] kind = "del_s2i" -> 3
      [] kind = "del_i2s" -> 4
      [] kind = "unlink"  -> 5
      [] OTHER            -> 0

\* C20: remove_node(n) validates before it writes anything; its statements
\* come in the order inserts into the successor, deletes from n, the ring
\* entries of n, the file of n; as long as it inserts and deletes, n is in
\* shards_to_idx, its position is in idx_to_shards if it was, and its file
\* is there if it was; and when the file is deleted every row it held has
\* been inserted, in order, into the file of the successor.
C20_RemoveNodeOrder ==
    [][last'.op = "remove_node"
         => LET n == last'.arg[1]
                path == _get_node_config(n)
                L == last'.log
                rows == IF path \in DOMAIN files THEN files[path] ELSE <<>>
                succ == _find_closest_next_node_for_hash(
                            World, (shards_to_idx[n] + 1) % max_limit).val
            IN /\ (n \notin DOMAIN shards_to_idx
                     \/ Cardinality(DOMAIN shards_to_idx) <= 1) => L = <<>>
               /\ \A k \in 1..Len(L) : StatementRank(L[k].kind) > 0
               /\ \A j \in 1..Len(L) : \A k \in 1..Len(L) :
                     j < k => /\ StatementRank(L[j].kind) <= StatementRank(L[k].kind)
                              /\ StatementRank(L[j].kind) > 2
                                   => StatementRank(L[j].kind) < StatementRank(L[k].kind)
               /\ \A k \in 1..Len(L) :
                     StatementRank(L[k].kind) <= 2
                         => /\ n \in DOMAIN L[k].s2i
                            /\ shards_to_idx[n] \in DOMAIN idx_to_shards
                                 => shards_to_idx[n] \in DOMAIN L[k].i2s
                            /\ path \in DOMAIN files => path \in DOMAIN L[k].files
               /\ \A k \in 1..Len(L) :
                     L[k].kind = "unlink"
                         => /\ L[k].on = path
                            /\ k > Len(rows)
                            /\ \A i \in 1..Len(rows) :
                                  /\ L[i].kind = "insert"
                                  /\ L[i].on = _get_node_config(succ)
                                  /\ L[i].files[L[i].on][Len(L[i].files[L[i].on])]
                                        = rows[i]
               /\ last'.err = ""
                     => /\ Len(L) >= 3
                        /\ L[Len(L) - 2].kind = "del_s2i"
                        /\ L[Len(L) - 1].kind = "del_i2s"
                        /\ L[Len(L)].kind = "unlink"]_vars

\* remove_node has succeeded after it moved a record to the file of another
\* node.
C20_Witness ==
    /\ last.op = "remove_node"
    /\ last.err = ""
    /\ \E k \in 1..Len(last.log) :
          /\ last.log[k].kind = "insert"
          /\ last.log[k].on # _get_node_config(last.arg[1])
          /\ last.log[k].on \in DOMAIN files
          /\ files[last.log[k].on] # <<>>

--------------------------------------------------------------------------
(* Frame of the operations *)

\* The files that differ between two states of the store.
ChangedFiles(before, after) ==
    {p \in DOMAIN before \cup DOMAIN after :
        \/ p \notin DOMAIN before
        \/ p \notin DOMAIN after
        \/ before[p] # after[p]}

\* The nodes of the ring s2i at the first position strictly after P,
\* wrapping to the smallest position.
ClockwiseSuccessors(s2i, P) ==
    LET positions == {s2i[n] : n \in DOMAIN s2i}
        after == {h \in positions : h > P}
        from == IF after = {} THEN positions ELSE after
    IN {n \in DOMAIN s2i : \A g \in from : s2i[n] \in from /\ s2i[n] <= g}

\* C21: add_node(n) and remove_node(n) change no file but the file of n and
\* the file of the node at the first position strictly after hash(n),
\* wrapping; the rows of every other file stay as they were.
C21_TopologyChangeTouchesTwo ==
    [][last'.op \in {"add_node", "remove_node"}
         => LET n == last'.arg[1]
                ring == (n :> _hash(n)) @@ shards_to_idx
            IN ChangedFiles(files, files')
                 \subseteq {_get_node_config(n)}
                           \cup {_get_node_config(m) :
                                   m \in ClockwiseSuccessors(ring, _hash(n))}]_vars

\* C22: insert_data, get_data and delete_data change neither map of the
\* ring; get_data changes no file; insert_data and delete_data change no
\* file but the file of the node the id resolves to, in which insert_data
\* adds one row and delete_data removes rows of that id only, and the ids
\* every other file holds stay as they were.
C22_RecordOpsFrame ==
    [][last'.op \in {"insert_data", "get_data", "delete_data"}
         => LET id == last'.arg[1]
                owner == _find_closest_next_node_for_key(World, Str(id))
                path == _get_node_config(owner.val)
            IN /\ UNCHANGED <<shards_to_idx, idx_to_shards>>
               /\ DOMAIN files' = DOMAIN files
               /\ last'.op = "get_data" => files' = files
               /\ owner.err # "" => files' = files
               /\ owner.err = ""
                     => /\ ChangedFiles(files, files') \subseteq {path}
                        /\ last'.io \subseteq {path}
                        /\ path \in ChangedFiles(files, files')
                             => \/ /\ last'.op = "insert_data"
                                   /\ files'[path] = Append(files[path], last'.arg)
                                \/ /\ last'.op = "delete_data"
                                   /\ files'[path] = OtherRows(files, path, id)]_vars

\* insert_data has added a row to the file of the owner, on a ring of two
\* or more nodes where another file holds a record.
C22_Witness ==
    /\ last.op = "insert_data"
    /\ last.err = ""
    /\ Cardinality(DOMAIN shards_to_idx) >= 2
    /\ \E p \in last.io : \E q \in DOMAIN files \ last.io :
          /\ files[p] # <<>>
          /\ files[p][Len(files[p])] = last.arg
          /\ files[q] # <<>>

\* C23: two different names of shards_to_idx never have the same file, also
\* names such as 'X' and 'X.csv'; and add_node(n) or remove_node(n) leaves
\* the file of every other node that stays in the ring in existence, with
\* no id of it lost from the files.
C23_DistinctContainers ==
    [][/\ \A n \in DOMAIN shards_to_idx' : \A m \in DOMAIN shards_to_idx' :
              n # m => _get_node_config(n) # _get_node_config(m)
       /\ last'.op \in {"add_node", "remove_node"}
            => \A m \in (DOMAIN shards_to_idx \cap DOMAIN shards_to_idx')
                          \ {last'.arg[1]} :
                  _get_node_config(m) \in DOMAIN files
                      => /\ _get_node_config(m) \in DOMAIN files'
                         /\ IdsIn(_get_node_config(m)) \subseteq IdsOf(files')]_vars

--------------------------------------------------------------------------
(* kthElement *)

\* The k-th smallest of the elements of a and b together, duplicates
\* counted: the value with fewer than k elements below it and at least k
\* elements not above it.
KthSmallest(a, b, k) ==
    LET all == a \o b
        below(v) == Cardinality({i \in 1..Len(all) : all[i] < v})
        upto(v) == Cardinality({i \in 1..Len(all) : all[i] <= v})
    IN CHOOSE v \in {all[i] : i \in 1..Len(all)} : below(v) < k /\ k <= upto(v)

\* C24: kthElement(a, b, k) on ascending lists with 1 <= k <= len(a)+len(b)
\* makes at most len(A)+1 passes of its loop, raises nothing, never falls
\* out of the loop, and returns the k-th smallest element of a and b
\* together, whichever list is longer.
C24_KthElement ==
    kth.pc \in {"loop", "done"}
        => /\ kth.passes <= Len(kth.A) + 1
           /\ kth.pc = "done"
                => /\ kth.err = ""
                   /\ kth.low <= kth.high
                   /\ kth.ret = Elem(KthSmallest(kth.a, kth.b, kth.k))

\* A call with the longer list first and both lists non-empty has returned
\* after more than one pass of the loop.
C24_Witness ==
    /\ kth.pc = "done"
    /\ Len(kth.a) > Len(kth.b)
    /\ Len(kth.b) > 0
    /\ kth.passes > 1
    /\ kth.ret = Elem(KthSmallest(kth.a, kth.b, kth.k))

====
